---- MODULE Spec2Model ----
(***************************************************************************)
(* Model of libaugrim/src/error/internal.rs: the InternalError value, its  *)
(* four constructors, Display and Debug rendering, the cause accessor and  *)
(* the consuming conversion reduce_to_string.                              *)
(*                                                                         *)
(* Text is a sequence of one-character strings, so that formatting is      *)
(* computed character by character.  Option<T> is a sequence of length at  *)
(* most one: <<>> is None and <<x>> is Some(x).                            *)
(***************************************************************************)
EXTENDS Naturals, Sequences, FiniteSets

VARIABLES err, built, chain, pc, self, entry, ret, shown, sink, max_level

vars == <<err, built, chain, pc, self, entry, ret, shown, sink, max_level>>

\* Largest number of causes nested under one value.
MaxDepth == 2

None == <<>>

Some(x) == <<x>>

\* The texts callers pass as message, prefix or io error text: the empty
\* string, a plain one and one holding a double quote.
Strings == { <<>>, <<"a">>, <<"a", "\"">> }

\* std::any::type_name::<InternalError>()
TypeName == <<"a", "u", "g", "r", "i", "m", ":", ":", "e", "r", "r", "o", "r", ":", ":", "i", "n", "t", "e", "r", "n", "a", "l", ":", ":", "I", "n", "t", "e", "r", "n", "a", "l", "E", "r", "r", "o", "r">>

\* The name given to f.debug_struct.
StructName == <<"I", "n", "t", "e", "r", "n", "a", "l", "E", "r", "r", "o", "r">>

FieldMessage == <<"m", "e", "s", "s", "a", "g", "e">>

FieldPrefix == <<"p", "r", "e", "f", "i", "x">>

FieldSource == <<"s", "o", "u", "r", "c", "e">>

(***************************************************************************)
(* Values.                                                                 *)
(***************************************************************************)

\* struct Source { prefix, source }
Source(p, s) == [prefix |-> p, source |-> s]

\* struct InternalError { message, source }
InternalError(m, s) == [type |-> "InternalError", message |-> m, source |-> s]

\* A cause of another type behind Box<dyn error::Error>: the
\* std::io::Error::new(ErrorKind::Other, text) of the documentation examples.
io_error(t) == [type |-> "io::Error", error |-> t]

from_source(source) == InternalError(None, Some(Source(None, source)))

\* from_source_with_message that also files the message as the prefix.
from_source_with_message_sets_prefix(source, message) ==
    InternalError(Some(message), Some(Source(Some(message), source)))

from_source_with_message(source, message) ==
    InternalError(Some(message), Some(Source(None, source)))

from_source_with_prefix(source, prefix) ==
    InternalError(None, Some(Source(Some(prefix), source)))

\* with_message that keeps no empty message.
with_message_drops_empty(message) ==
    InternalError(IF message = <<>> THEN None ELSE Some(message), None)

with_message(message) == InternalError(Some(message), None)

(***************************************************************************)
(* Formatting.                                                             *)
(***************************************************************************)

\* One character of a string under {:?}: the quote and the backslash are
\* escaped, the other characters of the alphabet are printable and kept.
EscapeChar(c) ==
    IF c = "\"" THEN <<"\\", "\"">>
    ELSE IF c = "\\" THEN <<"\\", "\\">>
    ELSE <<c>>

RECURSIVE EscapeStr(_)
EscapeStr(s) == IF s = <<>> THEN <<>> ELSE EscapeChar(Head(s)) \o EscapeStr(Tail(s))

\* {:?} of a String: the escaped text between double quotes.
StrDebug(s) == <<"\"">> \o EscapeStr(s) \o <<"\"">>

\* f.debug_struct(name)
debug_struct(name) == [out |-> name, has_fields |-> FALSE]

\* DebugStruct::field(name, value), value being the field's {:?} text.
field(ds, name, value) ==
    [out |-> ds.out \o (IF ds.has_fields THEN <<",", " ">> ELSE <<" ", "{", " ">>)
                   \o name \o <<":", " ">> \o value,
     has_fields |-> TRUE]

\* DebugStruct::finish()
finish(ds) == IF ds.has_fields THEN ds.out \o <<" ", "}">> ELSE ds.out

\* Display of the io error: its text.
IoDisplay(e) == e.error

\* Debug of the io error.
IoDebug(e) ==
    <<"C", "u", "s", "t", "o", "m", " ", "{", " ", "k", "i", "n", "d", ":", " ", "O", "t", "h", "e", "r", ",", " ", "e", "r", "r", "o", "r", ":", " ">>
        \o StrDebug(e.error) \o <<" ", "}">>

\* The match of Display::fmt with the cause looked at before the message.
DisplayArm_source_first(e) ==
    IF e.source # None
    THEN (IF e.source[1].prefix # None THEN "prefix" ELSE "source")
    ELSE IF e.message # None THEN "message"
    ELSE "type_name"

\* The arm of the match in Display::fmt that a value takes.
DisplayArm(e) ==
    IF e.message # None THEN "message"
    ELSE IF e.source = None THEN "type_name"
    ELSE IF e.source[1].prefix # None THEN "prefix"
    ELSE "source"

RECURSIVE Display_fmt(_)
\* Display::fmt that labels a cause wrapped without a prefix.
Display_fmt_labels_source(e) ==
    IF e.type # "InternalError" THEN IoDisplay(e)
    ELSE CASE DisplayArm(e) = "message" -> e.message[1]
           [] DisplayArm(e) = "prefix" ->
                e.source[1].prefix[1] \o <<":", " ">> \o Display_fmt(e.source[1].source)
           [] DisplayArm(e) = "source" ->
                StructName \o <<":", " ">> \o Display_fmt(e.source[1].source)
           [] OTHER -> TypeName

\* Display::fmt that joins prefix and cause with a colon and no space.
Display_fmt_no_space(e) ==
    IF e.type # "InternalError" THEN IoDisplay(e)
    ELSE CASE DisplayArm(e) = "message" -> e.message[1]
           [] DisplayArm(e) = "prefix" ->
                e.source[1].prefix[1] \o <<":">> \o Display_fmt(e.source[1].source)
           [] DisplayArm(e) = "source" -> Display_fmt(e.source[1].source)
           [] OTHER -> TypeName

\* impl fmt::Display for InternalError; a cause is rendered by its own type.
Display_fmt(e) ==
    IF e.type # "InternalError" THEN IoDisplay(e)
    ELSE CASE DisplayArm(e) = "message" -> e.message[1]
           [] DisplayArm(e) = "prefix" ->
                e.source[1].prefix[1] \o <<":", " ">> \o Display_fmt(e.source[1].source)
           [] DisplayArm(e) = "source" -> Display_fmt(e.source[1].source)
           [] OTHER -> TypeName

\* ToString::to_string: the Display text.
to_string(e) == Display_fmt(e)

RECURSIVE Debug_fmt(_)
\* Debug::fmt that writes the prefix field after the source field.
Debug_fmt_prefix_last(e) ==
    IF e.type # "InternalError" THEN IoDebug(e)
    ELSE LET ds0 == debug_struct(StructName)
             ds1 == IF e.message # None
                    THEN field(ds0, FieldMessage, StrDebug(e.message[1]))
                    ELSE ds0
             ds2 == IF e.source # None
                    THEN field(ds1, FieldSource, Debug_fmt(e.source[1].source))
                    ELSE ds1
             ds3 == IF e.source # None /\ e.source[1].prefix # None
                    THEN field(ds2, FieldPrefix, StrDebug(e.source[1].prefix[1]))
                    ELSE ds2
         IN  finish(ds3)

\* impl fmt::Debug for InternalError; a cause is rendered by its own type.
Debug_fmt(e) ==
    IF e.type # "InternalError" THEN IoDebug(e)
    ELSE LET ds0 == debug_struct(StructName)
             ds1 == IF e.message # None
                    THEN field(ds0, FieldMessage, StrDebug(e.message[1]))
                    ELSE ds0
             ds2 == IF e.source # None /\ e.source[1].prefix # None
                    THEN field(ds1, FieldPrefix, StrDebug(e.source[1].prefix[1]))
                    ELSE ds1
             ds3 == IF e.source # None
                    THEN field(ds2, FieldSource, Debug_fmt(e.source[1].source))
                    ELSE ds2
         IN  finish(ds3)

\* source() that hides the cause of a value carrying a message.
source_hidden_by_message(e) ==
    IF e.type # "InternalError" THEN None
    ELSE IF e.source # None /\ e.message = None THEN Some(e.source[1].source)
    ELSE None

\* impl error::Error for InternalError: the wrapped cause, if any.  The io
\* error built from a text has no cause of its own.
source(e) ==
    IF e.type # "InternalError" THEN None
    ELSE IF e.source # None THEN Some(e.source[1].source)
    ELSE None

\* log::LevelFilter::Trace, the most verbose level; Off is 0.
TraceLevel == 5

\* log::Level::Debug, the level of the debug! macro.
DebugLevel == 4

\* log::STATIC_MAX_LEVEL: no max_level_* feature is set, so Trace.
STATIC_MAX_LEVEL == TraceLevel

\* The values log::max_level() can have: Off, Error, Warn, Info, Debug, Trace.
LevelFilters == 0 .. TraceLevel

\* The guard the debug! macro expands to around the call of the logger.
debug_enabled(lvl) == DebugLevel <= STATIC_MAX_LEVEL /\ DebugLevel <= lvl

\* reduce_to_string whose record reaches the sink whatever the level.
reduce_log_unguarded(e, log, lvl) ==
    IF e.source # None THEN Append(log, Debug_fmt(e)) ELSE log

\* reduce_to_string that logs whether or not a cause is wrapped.
reduce_log_always(e, log, lvl) ==
    IF debug_enabled(lvl) THEN Append(log, Debug_fmt(e)) ELSE log

\* reduce_to_string, lines 135-137: the sink after the conditional debug!,
\* which hands the record to the logger only if the level admits Debug.
reduce_log(e, log, lvl) ==
    IF e.source # None /\ debug_enabled(lvl) THEN Append(log, Debug_fmt(e)) ELSE log

(***************************************************************************)
(* The life of one value: a cause is made, wrapped up to MaxDepth times,   *)
(* read through Display, Debug and source(), and consumed by               *)
(* reduce_to_string.  built and chain record the arguments the             *)
(* constructors were given, entry the value and the sink on entry to       *)
(* reduce_to_string, shown the last Display text of the current value,     *)
(* max_level the level filter of the process's logger.                     *)
(***************************************************************************)

NoRet == [op |-> "none", text |-> <<>>, cause |-> None]

ReadOps == {"Display", "Debug", "source"}

\* What the process-wide sink may hold before this value reaches it:
\* nothing, or the line of an earlier reduce_to_string.
PriorSinks == { <<>>, <<Debug_fmt(from_source(with_message(<<"a">>)))>> }

Init ==
    /\ err = None
    /\ built = [ctor |-> "none", text |-> None]
    /\ chain = <<>>
    /\ pc = "idle"
    /\ self = None
    /\ sink \in PriorSinks
    /\ max_level \in LevelFilters
    /\ entry = [self |-> None, sink |-> sink]
    /\ ret = NoRet
    /\ shown = None

\* A cause of a foreign type comes into being.
NewIoError(t) ==
    /\ pc = "idle" /\ err = None /\ built.ctor = "none"
    /\ err' = Some(io_error(t))
    /\ built' = [ctor |-> "io::Error::new", text |-> Some(t)]
    /\ UNCHANGED <<chain, pc, self, entry, ret, shown, sink, max_level>>

WithMessage(m) ==
    /\ pc = "idle" /\ err = None /\ built.ctor = "none"
    /\ err' = Some(with_message(m))
    /\ built' = [ctor |-> "with_message", text |-> Some(m)]
    /\ UNCHANGED <<chain, pc, self, entry, ret, shown, sink, max_level>>

\* The held value is moved into a new InternalError as its cause.
FromSource ==
    /\ pc = "idle" /\ err # None /\ Len(chain) < MaxDepth
    /\ err' = Some(from_source(err[1]))
    /\ built' = [ctor |-> "from_source", text |-> None]
    /\ chain' = <<err[1]>> \o chain
    /\ ret' = NoRet
    /\ shown' = None
    /\ UNCHANGED <<pc, self, entry, sink, max_level>>

FromSourceWithMessage(m) ==
    /\ pc = "idle" /\ err # None /\ Len(chain) < MaxDepth
    /\ err' = Some(from_source_with_message(err[1], m))
    /\ built' = [ctor |-> "from_source_with_message", text |-> Some(m)]
    /\ chain' = <<err[1]>> \o chain
    /\ ret' = NoRet
    /\ shown' = None
    /\ UNCHANGED <<pc, self, entry, sink, max_level>>

FromSourceWithPrefix(p) ==
    /\ pc = "idle" /\ err # None /\ Len(chain) < MaxDepth
    /\ err' = Some(from_source_with_prefix(err[1], p))
    /\ built' = [ctor |-> "from_source_with_prefix", text |-> Some(p)]
    /\ chain' = <<err[1]>> \o chain
    /\ ret' = NoRet
    /\ shown' = None
    /\ UNCHANGED <<pc, self, entry, sink, max_level>>

\* The held value is an InternalError on which a method can be called.
Held == pc = "idle" /\ err # None /\ err[1].type = "InternalError"

\* format!("{}", err)
CallDisplay ==
    /\ Held
    /\ ret' = [op |-> "Display", text |-> Display_fmt(err[1]), cause |-> None]
    /\ shown' = Some(Display_fmt(err[1]))
    /\ UNCHANGED <<err, built, chain, pc, self, entry, sink, max_level>>

\* format!("{:?}", err)
CallDebug ==
    /\ Held
    /\ ret' = [op |-> "Debug", text |-> Debug_fmt(err[1]), cause |-> None]
    /\ UNCHANGED <<err, built, chain, pc, self, entry, shown, sink, max_level>>

\* source() that takes the cause out of the value.
CallSource_takes ==
    /\ Held
    /\ ret' = [op |-> "source", text |-> <<>>, cause |-> source(err[1])]
    /\ err' = Some(InternalError(err[1].message, None))
    /\ UNCHANGED <<built, chain, pc, self, entry, shown, sink, max_level>>

\* err.source()
CallSource ==
    /\ Held
    /\ ret' = [op |-> "source", text |-> <<>>, cause |-> source(err[1])]
    /\ UNCHANGED <<err, built, chain, pc, self, entry, shown, sink, max_level>>

\* reduce_to_string(self): the value is moved into the call.
ReduceEnter ==
    /\ Held
    /\ self' = err
    /\ err' = None
    /\ entry' = [self |-> err, sink |-> sink]
    /\ ret' = NoRet
    /\ pc' = "reduce_log"
    /\ UNCHANGED <<built, chain, shown, sink, max_level>>

\* if self.source.is_some() { debug!("{:?}", self); }
ReduceLog ==
    /\ pc = "reduce_log"
    /\ sink' = reduce_log(self[1], sink, max_level)
    /\ pc' = "reduce_ret"
    /\ UNCHANGED <<err, built, chain, self, entry, ret, shown, max_level>>

\* self.to_string(): the text is returned and the value dropped.
ReduceReturn ==
    /\ pc = "reduce_ret"
    /\ ret' = [op |-> "reduce_to_string", text |-> to_string(self[1]), cause |-> None]
    /\ self' = None
    /\ pc' = "done"
    /\ UNCHANGED <<err, built, chain, entry, shown, sink, max_level>>

Next ==
    \/ \E t \in Strings : NewIoError(t)
    \/ \E m \in Strings : WithMessage(m)
    \/ FromSource
    \/ \E m \in Strings : FromSourceWithMessage(m)
    \/ \E p \in Strings : FromSourceWithPrefix(p)
    \/ CallDisplay
    \/ CallDebug
    \/ CallSource
    \/ ReduceEnter
    \/ ReduceLog
    \/ ReduceReturn

Spec == Init /\ [][Next]_vars

(***************************************************************************)
(* Properties.                                                             *)
(***************************************************************************)

WrappingCtors == {"from_source", "from_source_with_message", "from_source_with_prefix"}

\* Every InternalError in existence: the held one, the one moved into
\* reduce_to_string, and those wrapped as causes at any depth.
InternalErrors ==
    { v \in (IF err # None THEN {err[1]} ELSE {})
            \cup (IF self # None THEN {self[1]} ELSE {})
            \cup { chain[i] : i \in DOMAIN chain } : v.type = "InternalError" }

\* The causes met by calling source() again and again, outermost first.
RECURSIVE Walk(_)
Walk(e) == IF source(e) = None THEN <<>> ELSE <<source(e)[1]>> \o Walk(source(e)[1])

\* The opening and the separator of the record notation before a field.
Opening(name) == <<" ", "{", " ">> \o name \o <<":", " ">>

Following(name) == <<",", " ">> \o name \o <<":", " ">>

Closing == <<" ", "}">>

\* C1: the Display text of from_source(e) is the Display text of the cause e,
\* with nothing added, whatever e is.
C1_FromSourcePassthrough ==
    (ret.op = "Display" /\ built.ctor = "from_source")
        => ret.text = Display_fmt(Head(chain))

C1_Witness ==
    /\ ret.op = "Display" /\ built.ctor = "from_source"
    /\ Head(chain).type = "InternalError"
    /\ DisplayArm(Head(chain)) = "prefix"
    /\ ret.text # <<>>

\* C2: when a message was given, Display returns it verbatim: with_message(m)
\* and from_source_with_message(e, m) both display as m, whatever e displays.
C2_MessageVerbatim ==
    (ret.op = "Display" /\ built.ctor \in {"with_message", "from_source_with_message"})
        => ret.text = built.text[1]

C2_Witness ==
    /\ ret.op = "Display" /\ built.ctor = "from_source_with_message"
    /\ built.text = Some(<<>>)
    /\ Display_fmt(Head(chain)) # <<>>
    /\ ret.text = <<>>

\* C3: the Display text of from_source_with_prefix(e, p) is p, a colon, one
\* space and the Display text of e; a prefixed cause gives its whole text.
C3_PrefixDisplay ==
    (ret.op = "Display" /\ built.ctor = "from_source_with_prefix")
        => ret.text = built.text[1] \o <<":", " ">> \o Display_fmt(Head(chain))

C3_Witness ==
    /\ ret.op = "Display" /\ built.ctor = "from_source_with_prefix"
    /\ built.text = Some(<<>>)
    /\ Head(chain).type = "InternalError"
    /\ DisplayArm(Head(chain)) = "prefix"
    /\ ret.text = <<":", " ", "a", ":", " ", "a", "\"">>

\* C4: the Debug text is the record notation with the fields in the order
\* message, prefix, source; message appears iff a message was given, prefix
\* iff a prefix was given with the cause, source iff a cause is wrapped, its
\* value being the cause's own Debug text.
C4_DebugFields ==
    ret.op = "Debug" =>
        /\ built.ctor = "with_message" =>
              ret.text = StructName \o Opening(FieldMessage) \o StrDebug(built.text[1])
                            \o Closing
        /\ built.ctor = "from_source" =>
              ret.text = StructName \o Opening(FieldSource) \o Debug_fmt(Head(chain))
                            \o Closing
        /\ built.ctor = "from_source_with_message" =>
              ret.text = StructName \o Opening(FieldMessage) \o StrDebug(built.text[1])
                            \o Following(FieldSource) \o Debug_fmt(Head(chain))
                            \o Closing
        /\ built.ctor = "from_source_with_prefix" =>
              ret.text = StructName \o Opening(FieldPrefix) \o StrDebug(built.text[1])
                            \o Following(FieldSource) \o Debug_fmt(Head(chain))
                            \o Closing

C4_Witness ==
    /\ ret.op = "Debug" /\ built.ctor = "from_source_with_prefix"
    /\ built.text = Some(<<"a", "\"">>)
    /\ Head(chain) = from_source_with_message(with_message(<<"a">>), <<>>)
    /\ ret.text = <<"I", "n", "t", "e", "r", "n", "a", "l", "E", "r", "r", "o", "r", " ", "{", " ", "p", "r", "e", "f", "i", "x", ":", " ", "\"", "a", "\\", "\"", "\"", ",", " ", "s", "o", "u", "r", "c", "e", ":", " ", "I", "n", "t", "e", "r", "n", "a", "l", "E", "r", "r", "o", "r", " ", "{", " ", "m", "e", "s", "s", "a", "g", "e", ":", " ", "\"", "\"", ",", " ", "s", "o", "u", "r", "c", "e", ":", " ", "I", "n", "t", "e", "r", "n", "a", "l", "E", "r", "r", "o", "r", " ", "{", " ", "m", "e", "s", "s", "a", "g", "e", ":", " ", "\"", "a", "\"", " ", "}", " ", "}", " ", "}">>

\* C5 as stated: reduce_to_string on a value with a cause appends exactly
\* one line to the sink, the Debug text of the value, before it returns; it
\* returns the Display text and the value is gone.
C5_Original ==
    (built.ctor \in WrappingCtors /\ pc \in {"reduce_log", "reduce_ret", "done"}) =>
        /\ pc = "reduce_log" => sink = entry.sink
        /\ pc \in {"reduce_ret", "done"} =>
              sink = Append(entry.sink, Debug_fmt(entry.self[1]))
        /\ pc = "reduce_ret" => ret.op # "reduce_to_string"
        /\ pc = "done" =>
              /\ ret.op = "reduce_to_string"
              /\ ret.text = Display_fmt(entry.self[1])
              /\ err = None /\ self = None

\* C5: reduce_to_string on a value with a cause appends exactly one line to
\* the sink, the Debug text of the value, when the log level admits Debug,
\* and none otherwise; the line is there before the call returns; the call
\* returns the Display text and the value is gone.
C5_ReduceEmitsOnceIfEnabled ==
    (built.ctor \in WrappingCtors /\ pc \in {"reduce_log", "reduce_ret", "done"}) =>
        /\ pc = "reduce_log" => sink = entry.sink
        /\ (pc \in {"reduce_ret", "done"} /\ max_level >= DebugLevel) =>
              sink = Append(entry.sink, Debug_fmt(entry.self[1]))
        /\ (pc \in {"reduce_ret", "done"} /\ max_level < DebugLevel) =>
              sink = entry.sink
        /\ pc = "reduce_ret" => ret.op # "reduce_to_string"
        /\ pc = "done" =>
              /\ ret.op = "reduce_to_string"
              /\ ret.text = Display_fmt(entry.self[1])
              /\ err = None /\ self = None

C5_Witness ==
    /\ pc = "done" /\ built.ctor = "from_source_with_prefix"
    /\ max_level = DebugLevel
    /\ Len(entry.sink) = 1 /\ Len(sink) = 2
    /\ sink[2] # ret.text

\* C6: reduce_to_string on a value built by with_message returns the value's
\* Display text and leaves the sink as it was.
C6_ReduceNoCauseSilent ==
    (built.ctor = "with_message" /\ pc \in {"reduce_log", "reduce_ret", "done"}) =>
        /\ sink = entry.sink
        /\ pc = "done" =>
              /\ ret.op = "reduce_to_string"
              /\ ret.text = Display_fmt(entry.self[1])
              /\ shown # None => ret.text = shown[1]

C6_Witness ==
    /\ pc = "done" /\ built.ctor = "with_message"
    /\ shown # None
    /\ max_level >= DebugLevel
    /\ Len(sink) = 1

\* C7: source() returns the wrapped cause itself when one is wrapped, by any
\* of the three wrapping constructors, and nothing after with_message;
\* walking source() from a nested value meets every cause in order.
C7_SourceIsCause ==
    /\ ret.op = "source" =>
          ret.cause = (IF built.ctor \in WrappingCtors THEN Some(Head(chain)) ELSE None)
    /\ err # None => Walk(err[1]) = chain

C7_Witness ==
    /\ ret.op = "source" /\ built.ctor = "from_source_with_message"
    /\ Len(chain) = 2
    /\ chain[1].type = "InternalError" /\ chain[1].source # None
    /\ chain[1].source[1].prefix # None

\* C8: every InternalError has one of the four shapes (message only, cause
\* only, cause and message, cause and prefix), and each constructor fills
\* exactly its own fields.
C8_FourShapes ==
    /\ \A v \in InternalErrors :
          /\ v.source = None => v.message # None
          /\ v.source # None => ~(v.message # None /\ v.source[1].prefix # None)
    /\ err # None =>
          /\ built.ctor = "with_message" =>
                err[1].message = built.text /\ err[1].source = None
          /\ built.ctor = "from_source" =>
                /\ err[1].message = None
                /\ err[1].source = Some([prefix |-> None, source |-> Head(chain)])
          /\ built.ctor = "from_source_with_message" =>
                /\ err[1].message = built.text
                /\ err[1].source = Some([prefix |-> None, source |-> Head(chain)])
          /\ built.ctor = "from_source_with_prefix" =>
                /\ err[1].message = None
                /\ err[1].source = Some([prefix |-> built.text, source |-> Head(chain)])

C8_Witness ==
    /\ err # None /\ built.ctor = "from_source_with_prefix"
    /\ Len(chain) = 2
    /\ chain[1].type = "InternalError" /\ chain[1].message # None
    /\ chain[1].source # None

\* C9: no InternalError at any depth takes the type-name arm of Display:
\* each has a message or a cause, and no rendering returns the type name.
C9_NoFallback ==
    /\ \A v \in InternalErrors : DisplayArm(v) # "type_name"
    /\ ret.op \in {"Display", "reduce_to_string"} => ret.text # TypeName

C9_Witness ==
    /\ ret.op = "Display"
    /\ Len(chain) = 2
    /\ \A i \in DOMAIN chain : chain[i].type = "InternalError"
    /\ built.ctor = "from_source"

\* C10: a Display, Debug or source() call leaves the value as it was; a
\* repeated rendering gives the same text, and reduce_to_string returns the
\* Display text shown before.
C10_ReadsDoNotMutate ==
    [][ /\ ret'.op \in ReadOps => err' = err
        /\ (ret'.op \in ReadOps /\ ret.op = ret'.op) => ret' = ret
        /\ (ret'.op \in {"Display", "reduce_to_string"} /\ shown # None)
              => ret'.text = shown[1] ]_vars

C10_Witness ==
    /\ pc = "done" /\ built.ctor = "from_source_with_prefix"
    /\ shown # None /\ ret.text = shown[1]
    /\ Len(chain) = 2

====
